---- MODULE Spec2Model ----
(***************************************************************************)
(* Process controller of the food-processing cell (main_flow.py) with its  *)
(* collaborators: the MQTT cutter and turntable (controls.py), the order   *)
(* queue (order_manager.py), the operator's Continue handshake             *)
(* (dashboard_ui.py) and the shutdown path of main.py.                     *)
(*                                                                         *)
(* Three processes share the state: the controller worker (run), the main  *)
(* thread (GUI main loop, then MainController.stop) and the operator.      *)
(* Masses are grams as integers.                                           *)
(***************************************************************************)
EXTENDS Integers, Sequences, FiniteSets, TLC

\* ---- bounds of the model ------------------------------------------------
\* orders queued before the controller starts; orders in the queue beyond
\* which the controller adds no further test order
MaxQueued == 1
MaxOrders == 2

\* ---- program constants --------------------------------------------------
weight_stable_threshold == 500
no_change_checks == 20
finish_no_change_checks == 20
MAX_PLAUSIBLE_JUMP == 5000
numPositions == 6
DummyOrderGrams == 100

\* ---- input domains ------------------------------------------------------
Ingredient == {"potato"}
None == -1
Absent == -1
\* calibrated readings the load cell can return (None: no valid reading)
Readings == {0, 200, 700, 5700}
\* required grams of the orders put in the queue before the controller runs
OrderGrams == {150, 1200}

VARIABLES
  pc,                    \* position of the controller worker
  wait_ret,              \* where the worker continues after wait_for_continue
  stop_event,            \* MainController._stop_event
  stop_pc,               \* position of the main thread (GUI loop, then stop())
  continue_event,        \* DashboardUI.continue_event
  orders,                \* OrderManager.orders
  next_order_id,         \* OrderManager.next_order_id
  order,                 \* index in orders of the order being processed (0: none)
  ing_todo,              \* ingredients of the order still to iterate
  ingredient_enum,       \* ingredient being processed ("none": none)
  pre_process_weight,    \* local of _process_ingredient
  required_ingredients,  \* MainController.required_ingredients
  processed_ingredients, \* MainController.processed_ingredients
  last_weight,           \* local of _run_cutter_until_weight_reached
  no_change_count,       \* local of _run_cutter_until_weight_reached
  w,                     \* local: the sample after the None fallback
  reading,               \* history: what the last get_weight(samples=1) of the cycle returned
  delta,                 \* local: the filtered delta of the sample
  stable_count,          \* local of _resume_until_stable
  last,                  \* local of _resume_until_stable
  exit_kind,             \* how the cut-cycle executor is being left
  cutter_connected,      \* Cutter.connected
  cutter_link,           \* the MQTT session of Cutter.client is up
  plug_on,               \* the Shelly plug (the actuator) is switched on
  currentPosition,       \* Turntable.currentPosition
  deact_count,           \* history: deactivate() calls of this executor call
  cycle_start,           \* history: accumulated mass when the cycle started
  sub_run,               \* history: length of the current run of deltas < S
  accepted_sum,          \* history: sum of the deltas >= S of this cycle
  ing_accepted,          \* history: sum of the deltas >= S of this ingredient run
  detections,            \* local of _check_quality: the list the camera returned
  grams,                 \* local of _finish_ingredient: the net grams reported
  table_position,        \* position the turntable was last moved to
  pos_at_entry,          \* history: currentPosition when _process_ingredient began
  scen,                  \* detector harness: target, threshold and limit in use
  det,                   \* detector harness: accumulated, no_change_count, state
  fed,                   \* detector harness: the filtered deltas fed so far
  teardown_attempts,     \* stop(): how often each collaborator's teardown was called
  teardown_raised,       \* stop(): the collaborators whose teardown raised
  lock_owner,            \* MainController._lock: the thread inside a with block
  lock_pc,               \* the worker's statement in the code around that lock
  cam_lock,              \* CameraController._lock: the thread inside a with block
  cam_pc,                \* the worker's statement in get_latest_objects
  bg_pc,                 \* the background thread's statement in _continuous_loop
  cam_file,              \* the capture stored at save_path: who took it, and which
  cam_seen,              \* the capture the worker's model call has read
  cam_count,             \* captures taken so far, per thread
  cut_log,               \* Cutter on its own: the calls made so far, and whether each raised
  scale_hist,            \* one cut-cycle against the scale: mass at entry, highest reading, target
  ack,                   \* the Continue handshake on its own: waiter's position, presses, returns
  ingredient_totals,     \* OrderManager.ingredient_totals
  om_call                \* OrderManager on its own: the last call made

ctlVars  == <<pc, wait_ret, order, ing_todo, ingredient_enum, pre_process_weight>>
evVars   == <<stop_event, stop_pc, continue_event>>
omVars   == <<orders, next_order_id, ingredient_totals>>
mapVars  == <<required_ingredients, processed_ingredients>>
cutVars  == <<last_weight, no_change_count, w, delta, exit_kind, reading>>
resVars  == <<stable_count, last>>
hwVars   == <<cutter_connected, cutter_link, plug_on, currentPosition>>
histVars == <<deact_count, cycle_start, sub_run, accepted_sum, ing_accepted>>
qualVars == <<detections, grams>>
turnVars == <<table_position, pos_at_entry>>
tearVars == <<teardown_attempts, teardown_raised>>
lockVars == <<lock_owner, lock_pc>>
camVars == <<cam_lock, cam_pc, bg_pc, cam_file, cam_seen, cam_count>>
unitVars == <<cut_log, scale_hist, ack, om_call>>
scenVars == <<scen, det, fed, tearVars, lockVars, camVars, unitVars>>
vars == <<ctlVars, evVars, omVars, mapVars, cutVars, resVars, hwVars, histVars,
          qualVars, turnVars, scenVars>>

\* ---- order_manager.py ---------------------------------------------------
Order(id, required_grams) ==
  [order_id |-> id, ingredients |-> [i \in Ingredient |-> required_grams],
   status |-> "pending"]

RECURSIVE PendingFrom(_, _)
PendingFrom(os, k) ==
  IF k > Len(os) THEN <<>>
  ELSE IF os[k].status # "completed" THEN <<k>> \o PendingFrom(os, k + 1)
       ELSE PendingFrom(os, k + 1)

\* indices of the orders that are not completed, in queue order
get_pending_orders(os) == PendingFrom(os, 1)

add_order(os, id, required_grams) == Append(os, Order(id, required_grams))

SetStatus(os, k, s) == [os EXCEPT ![k].status = s]

\* add_order's loop: totals[i] = totals.get(i, 0.0) + grams
AddTotals(totals, ings) ==
  [i \in Ingredient |->
     IF i \in DOMAIN ings
     THEN (IF totals[i] = Absent THEN 0 ELSE totals[i]) + ings[i]
     ELSE totals[i]]

\* variant: removing an order leaves the totals as they are
RemoveTotals_Keeps(totals, ings) == totals

\* remove_order's loop: decrement, delete the entry when it is <= 0
RemoveTotals(totals, ings) ==
  [i \in Ingredient |->
     IF i \in DOMAIN ings /\ totals[i] # Absent
     THEN (IF totals[i] - ings[i] <= 0 THEN Absent ELSE totals[i] - ings[i])
     ELSE totals[i]]

\* self.orders.pop(index), index counted from 0
Pop(os, index) ==
  [k \in 1..(Len(os) - 1) |-> IF k <= index THEN os[k] ELSE os[k + 1]]

\* the totals of a manager on which the orders of os were added one by one
RECURSIVE TotalsAfterAdds(_)
TotalsAfterAdds(os) ==
  IF os = <<>> THEN [i \in Ingredient |-> Absent]
  ELSE AddTotals(TotalsAfterAdds(SubSeq(os, 1, Len(os) - 1)), os[Len(os)].ingredients)

RECURSIVE InitialQueue(_)
\* the queues add_order can have built before the controller starts
InitialQueue(n) ==
  IF n = 0 THEN {<<>>}
  ELSE LET shorter == InitialQueue(n - 1)
       IN shorter \cup
          {add_order(q, Len(q) + 1, g) : q \in {s \in shorter : Len(s) = n - 1}, g \in OrderGrams}

\* ---- controls.py: Cutter ------------------------------------------------
\* publish reaches the plug only over a live session
Delivered == cutter_connected /\ cutter_link

Cutter_activate == plug_on' = IF Delivered THEN TRUE ELSE plug_on

Cutter_deactivate == plug_on' = IF Delivered THEN FALSE ELSE plug_on

\* ---- main_flow.py: mass filter and detector -----------------------------
ReadOrZero(r) == IF r = None \/ r = 0 THEN 0 ELSE r

\* variant: a missing reading is taken as an empty scale
Fallback_Zero(r, lastv) == IF r = None THEN 0 ELSE r

Fallback(r, lastv) == IF r = None THEN lastv ELSE r

\* variant: the clamp of implausible jumps is missing
MassFilter_NoJumpClamp(lastv, wv) ==
  LET d0 == wv - lastv
  IN IF d0 < 0 THEN 0 ELSE d0

MassFilter(lastv, wv) ==
  LET d0 == wv - lastv
      d1 == IF d0 < 0 THEN 0 ELSE d0
  IN IF d1 > MAX_PLAUSIBLE_JUMP THEN 0 ELSE d1

\* the raw sample becomes the baseline of the next comparison
NewLast(lastv, wv) == wv

Accepted(d) == d >= weight_stable_threshold

\* variant: every delta is credited, also those under the threshold
Accumulate_Always(acc, d) == acc + d

Accumulate(acc, d) == IF Accepted(d) THEN acc + d ELSE acc

\* variant: an accepted delta does not reset the counter
NextNoChange_NoReset(count, d) == IF Accepted(d) THEN count ELSE count + 1

NextNoChange(count, d) == IF Accepted(d) THEN 0 ELSE count + 1

\* variant: the target has to be exceeded
TargetReached_Strict(processed, required) == processed > required

TargetReached(processed, required) == processed >= required

StallDetected(count) == count >= no_change_checks

Abs(x) == IF x < 0 THEN 0 - x ELSE x

NextStable(count, wv, lastv) ==
  IF Abs(wv - lastv) < weight_stable_threshold THEN count + 1 ELSE 0

\* ---- initial state ------------------------------------------------------
NoCheck == <<"none">>

\* tunables, target and state of a detector that is not being driven
DetectorIdle == [accumulated |-> 0, no_change_count |-> 0, state |-> "Idle"]
SourceTuning == [target |-> 0, threshold |-> weight_stable_threshold,
                 limit |-> no_change_checks]

\* the controller and its collaborators after construction, the turntable
\* left aside
InitController ==
  /\ pc = "run"
  /\ wait_ret = "none"
  /\ stop_event = FALSE
  /\ stop_pc = "mainloop"
  /\ continue_event = FALSE
  /\ orders \in InitialQueue(MaxQueued)
  /\ next_order_id = Len(orders) + 1
  /\ ingredient_totals = TotalsAfterAdds(orders)
  /\ order = 0
  /\ ing_todo = <<>>
  /\ ingredient_enum = "none"
  /\ pre_process_weight = 0
  /\ required_ingredients = [i \in Ingredient |-> Absent]
  /\ processed_ingredients = [i \in Ingredient |-> Absent]
  /\ last_weight = 0
  /\ no_change_count = 0
  /\ w = 0
  /\ reading = None
  /\ delta = 0
  /\ exit_kind = "none"
  /\ stable_count = 0
  /\ last = 0
  /\ cutter_connected \in BOOLEAN
  /\ cutter_link = cutter_connected
  /\ plug_on = FALSE
  /\ deact_count = 0
  /\ cycle_start = 0
  /\ sub_run = 0
  /\ accepted_sum = 0
  /\ ing_accepted = 0
  /\ detections = NoCheck
  /\ grams = 0

InitTurntable(position) ==
  /\ currentPosition = position
  /\ table_position = position
  /\ pos_at_entry = position

Collaborators == {"camera", "cutter", "load_cell", "turntable"}

InitTeardown ==
  /\ teardown_attempts = [c \in Collaborators |-> 0]
  /\ teardown_raised = {}

InitLock ==
  /\ lock_owner = "none"
  /\ lock_pc = "order_entry"

NoCapture == [by |-> "none", n |-> 0]

InitCamera ==
  /\ cam_lock = "none"
  /\ cam_pc = "idle"
  /\ bg_pc = "loop"
  /\ cam_file = NoCapture
  /\ cam_seen = NoCapture
  /\ cam_count = [t \in {"worker", "background"} |-> 0]

ScaleIdle == [phase |-> "idle", start |-> 0, highest |-> None, target |-> 0]

NoCall == [op |-> "none", index |-> 0]

AckIdle == [phase |-> "idle", presses |-> 0, fresh |-> 0, released |-> 0,
            result |-> "none", timed_out |-> FALSE]

InitUnits ==
  /\ cut_log = <<>>
  /\ scale_hist = ScaleIdle
  /\ ack = AckIdle
  /\ om_call = NoCall

InitHarnessIdle ==
  /\ scen = SourceTuning
  /\ det = DetectorIdle
  /\ fed = <<>>
  /\ InitTeardown
  /\ InitLock
  /\ InitCamera
  /\ InitUnits

Init ==
  /\ InitController
  /\ InitTurntable(0)
  /\ InitHarnessIdle

\* ---- dashboard_ui.py: the Continue handshake ----------------------------
\* _ui_wait_for_continue -> DashboardUI.wait_for_continue: clear, then wait
Wait(ret) == pc' = "wait_clear" /\ wait_ret' = ret

WaitForContinueClear ==
  /\ pc = "wait_clear"
  /\ continue_event' = FALSE
  /\ pc' = "wait_blocked"
  /\ UNCHANGED <<detections, grams, table_position, pos_at_entry, scenVars,
                 wait_ret, order, ing_todo, ingredient_enum, pre_process_weight,
                 stop_event, stop_pc, omVars, mapVars, cutVars, resVars, hwVars, histVars>>

WaitForContinueWake ==
  /\ pc = "wait_blocked"
  /\ continue_event
  /\ pc' = wait_ret
  /\ wait_ret' = "none"
  /\ UNCHANGED <<detections, grams, table_position, pos_at_entry, scenVars,
                 order, ing_todo, ingredient_enum, pre_process_weight,
                 evVars, omVars, mapVars, cutVars, resVars, hwVars, histVars>>

\* the Continue button; it can be clicked while the GUI main loop runs
InternalOnContinueClick ==
  /\ stop_pc = "mainloop"
  /\ continue_event' = TRUE
  /\ UNCHANGED <<detections, grams, table_position, pos_at_entry, scenVars,
                 ctlVars, stop_event, stop_pc, omVars, mapVars, cutVars, resVars,
                 hwVars, histVars>>

\* ---- main_flow.py: top-level loop and order level -----------------------
\* variant: the loop runs while cancelled
Run_LoopTestInverted ==
  /\ pc = "run"
  /\ pc' = IF stop_event THEN "wait_for_order" ELSE "returned"
  /\ UNCHANGED <<detections, grams, table_position, pos_at_entry, scenVars,
                 wait_ret, order, ing_todo, ingredient_enum, pre_process_weight,
                 evVars, omVars, mapVars, cutVars, resVars, hwVars, histVars>>

\* while not self._stop_event.is_set()
Run ==
  /\ pc = "run"
  /\ pc' = IF stop_event THEN "returned" ELSE "wait_for_order"
  /\ UNCHANGED <<detections, grams, table_position, pos_at_entry, scenVars,
                 wait_ret, order, ing_todo, ingredient_enum, pre_process_weight,
                 evVars, omVars, mapVars, cutVars, resVars, hwVars, histVars>>

WaitForOrder ==
  /\ pc = "wait_for_order"
  /\ LET pending == get_pending_orders(orders)
     IN IF pending # <<>>
        THEN /\ order' = pending[1]
             /\ pc' = "process_order"
             /\ UNCHANGED wait_ret
        ELSE /\ Wait("add_test_order")
             /\ UNCHANGED order
  /\ UNCHANGED <<detections, grams, table_position, pos_at_entry, scenVars,
                 ing_todo, ingredient_enum, pre_process_weight,
                 evVars, omVars, mapVars, cutVars, resVars, hwVars, histVars>>

\* after the acknowledgement: add the test order, refresh the display
\* (update_ui raises when the UI has no safe_update_orders), return pending[0]
WaitForOrderAddTestOrder ==
  /\ pc = "add_test_order"
  /\ Len(orders) < MaxOrders
  /\ orders' = add_order(orders, next_order_id, DummyOrderGrams)
  /\ next_order_id' = next_order_id + 1
  /\ ingredient_totals' = AddTotals(ingredient_totals, orders'[Len(orders')].ingredients)
  /\ \E ui_ok \in BOOLEAN :
       IF ui_ok
       THEN /\ order' = get_pending_orders(orders')[1]
            /\ pc' = "process_order"
       ELSE /\ pc' = "crashed"
            /\ UNCHANGED order
  /\ UNCHANGED <<detections, grams, table_position, pos_at_entry, scenVars,
                 wait_ret, ing_todo, ingredient_enum, pre_process_weight,
                 evVars, mapVars, cutVars, resVars, hwVars, histVars>>

ProcessOrderMarkInProgress ==
  /\ pc = "process_order"
  /\ orders' = SetStatus(orders, order, "in_progress")
  /\ \E ui_ok \in BOOLEAN : pc' = IF ui_ok THEN "fetch_ingredients" ELSE "crashed"
  /\ UNCHANGED <<detections, grams, table_position, pos_at_entry, scenVars,
                 wait_ret, order, ing_todo, ingredient_enum, pre_process_weight,
                 evVars, next_order_id, ingredient_totals, mapVars, cutVars, resVars, hwVars, histVars>>

RECURSIVE SeqOfSet(_)
SeqOfSet(S) == IF S = {} THEN <<>>
               ELSE LET x == CHOOSE y \in S : TRUE IN <<x>> \o SeqOfSet(S \ {x})

\* get_order_ingredients; when it raises the order is given up (logged) and
\* _process_order returns to run()
ProcessOrderFetchIngredients ==
  /\ pc = "fetch_ingredients"
  /\ \E fetch_ok \in BOOLEAN :
       IF fetch_ok
       THEN /\ ing_todo' = SeqOfSet(DOMAIN orders[order].ingredients)
            /\ pc' = "next_ingredient"
            /\ UNCHANGED order
       ELSE /\ pc' = "run"
            /\ order' = 0
            /\ UNCHANGED ing_todo
  /\ UNCHANGED <<detections, grams, table_position, pos_at_entry, scenVars,
                 wait_ret, ingredient_enum, pre_process_weight,
                 evVars, omVars, mapVars, cutVars, resVars, hwVars, histVars>>

\* variant: the first-use test always succeeds, the entry restarts at zero
OrZero_Restart(v) == 0

OrZero(v) == IF v = Absent THEN 0 ELSE v

\* variant: the order's requirement replaces the total
AddRequired_Overwrite(total, required_grams) == required_grams

\* first use makes the entry 0.0, then += required_grams
AddRequired(total, required_grams) ==
  (IF total = Absent THEN 0 ELSE total) + required_grams

\* one turn of the for loop over ingredients.items(), up to the entry of
\* _process_ingredient
ProcessOrderNextIngredient ==
  /\ pc = "next_ingredient"
  /\ IF ing_todo = <<>>
     THEN /\ pc' = "order_completed"
          /\ ingredient_enum' = "none"
          /\ pre_process_weight' = 0
          /\ UNCHANGED <<ing_todo, mapVars, pos_at_entry>>
     ELSE LET i == Head(ing_todo)
              required_grams == orders[order].ingredients[i]
          IN /\ processed_ingredients' =
                  [processed_ingredients EXCEPT ![i] = OrZero(processed_ingredients[i])]
             /\ required_ingredients' =
                  [required_ingredients EXCEPT
                     ![i] = AddRequired(required_ingredients[i], required_grams)]
             /\ ingredient_enum' = i
             /\ ing_todo' = Tail(ing_todo)
             /\ pre_process_weight' = processed_ingredients'[i]
             /\ pos_at_entry' = currentPosition
             /\ pc' = "ingredient_loop"
  /\ grams' = 0
  /\ ing_accepted' = 0
  /\ UNCHANGED <<detections, table_position, scenVars,
                 wait_ret, order, evVars, omVars, cutVars, resVars, hwVars,
                 deact_count, cycle_start, sub_run, accepted_sum>>

\* variant: a finished order is put back to pending
ProcessOrderComplete_Reopens ==
  /\ pc = "order_completed"
  /\ orders' = SetStatus(orders, order, "pending")
  /\ order' = 0
  /\ pc' = "run"
  /\ UNCHANGED <<detections, grams, table_position, pos_at_entry, scenVars,
                 wait_ret, ing_todo, ingredient_enum, pre_process_weight,
                 evVars, next_order_id, ingredient_totals, mapVars, cutVars, resVars, hwVars, histVars>>

ProcessOrderComplete ==
  /\ pc = "order_completed"
  /\ orders' = SetStatus(orders, order, "completed")
  /\ order' = 0
  /\ pc' = "run"
  /\ UNCHANGED <<detections, grams, table_position, pos_at_entry, scenVars,
                 wait_ret, ing_todo, ingredient_enum, pre_process_weight,
                 evVars, next_order_id, ingredient_totals, mapVars, cutVars, resVars, hwVars, histVars>>

\* ---- main_flow.py: ingredient sequencer ---------------------------------
\* variant: the loop ends with the first batch that credits anything
ProcessIngredientLoop_FirstBatchEnds ==
  /\ pc = "ingredient_loop"
  /\ pc' = IF /\ processed_ingredients[ingredient_enum] <= pre_process_weight
              /\ ~stop_event
           THEN "prompt_user_to_place" ELSE "finish_ingredient"
  /\ UNCHANGED <<detections, grams, table_position, pos_at_entry, scenVars,
                 wait_ret, order, ing_todo, ingredient_enum, pre_process_weight,
                 evVars, omVars, mapVars, cutVars, resVars, hwVars, histVars>>

\* while accumulated < required and not cancelled
ProcessIngredientLoop ==
  /\ pc = "ingredient_loop"
  /\ pc' = IF /\ processed_ingredients[ingredient_enum] < required_ingredients[ingredient_enum]
              /\ ~stop_event
           THEN "prompt_user_to_place" ELSE "finish_ingredient"
  /\ UNCHANGED <<detections, grams, table_position, pos_at_entry, scenVars,
                 wait_ret, order, ing_todo, ingredient_enum, pre_process_weight,
                 evVars, omVars, mapVars, cutVars, resVars, hwVars, histVars>>

PromptUserToPlace ==
  /\ pc = "prompt_user_to_place"
  /\ Wait("check_quality")
  /\ detections' = NoCheck
  /\ UNCHANGED <<grams, table_position, pos_at_entry, scenVars,
                 order, ing_todo, ingredient_enum, pre_process_weight,
                 evVars, omVars, mapVars, cutVars, resVars, hwVars, histVars>>

Labels == {"healthy", "unhealthy"}
DetectionLists == {<<>>} \cup {<<a>> : a \in Labels} \cup {<<a, b>> : a \in Labels, b \in Labels}

\* variant: an empty detection list counts as healthy
is_healthy_EmptyIsHealthy(dets) ==
  \A k \in 1..Len(dets) : dets[k] # "unhealthy"

is_healthy(dets) ==
  /\ dets # <<>>
  /\ \A k \in 1..Len(dets) : dets[k] # "unhealthy"

\* camera.get_latest_objects either returns a detection list or raises (the
\* capture and the model call are unguarded); the error unwinds out of run()
CheckQuality ==
  /\ pc = "check_quality"
  /\ \E dets \in DetectionLists, camera_ok \in BOOLEAN :
       IF ~camera_ok
       THEN pc' = "crashed" /\ UNCHANGED <<wait_ret, detections>>
       ELSE /\ detections' = dets
            /\ IF is_healthy(dets)
               THEN pc' = "cutter_activate" /\ UNCHANGED wait_ret
               ELSE Wait("ingredient_loop")
  /\ UNCHANGED <<grams, table_position, pos_at_entry, scenVars,
                 order, ing_todo, ingredient_enum, pre_process_weight,
                 evVars, omVars, mapVars, cutVars, resVars, hwVars, histVars>>

\* variant: the total accumulated mass is reported instead of the net grams
FinishIngredient_ReportsTotal ==
  /\ pc = "finish_ingredient"
  /\ Wait("next_ingredient")
  /\ grams' = processed_ingredients[ingredient_enum]
  /\ detections' = NoCheck
  /\ UNCHANGED <<table_position, pos_at_entry, scenVars,
                 order, ing_todo, ingredient_enum, pre_process_weight, evVars,
                 omVars, mapVars, cutVars, resVars, hwVars, histVars>>

FinishIngredient ==
  /\ pc = "finish_ingredient"
  /\ Wait("next_ingredient")
  /\ grams' = processed_ingredients[ingredient_enum] - pre_process_weight
  /\ detections' = NoCheck
  /\ UNCHANGED <<table_position, pos_at_entry, scenVars,
                 order, ing_todo, ingredient_enum, pre_process_weight, evVars, omVars, mapVars, cutVars, resVars, hwVars, histVars>>

\* ---- main_flow.py: cut-cycle executor -----------------------------------
Samples == Readings \cup {None}

\* self.cutter.activate() of the executor
\* variant: a cut-cycle starts the ingredient's accumulator from zero
RunCutterActivate_ResetsProgress ==
  /\ pc = "cutter_activate"
  /\ Cutter_activate
  /\ processed_ingredients' = [processed_ingredients EXCEPT ![ingredient_enum] = 0]
  /\ deact_count' = 0
  /\ cycle_start' = 0
  /\ sub_run' = 0
  /\ accepted_sum' = 0
  /\ detections' = NoCheck
  /\ pc' = "cutter_init"
  /\ UNCHANGED <<grams, table_position, pos_at_entry, scenVars,
                 wait_ret, order, ing_todo, ingredient_enum, pre_process_weight,
                 evVars, omVars, required_ingredients, cutVars, resVars,
                 cutter_connected, cutter_link, currentPosition, ing_accepted>>

RunCutterActivate ==
  /\ pc = "cutter_activate"
  /\ Cutter_activate
  /\ detections' = NoCheck
  /\ deact_count' = 0
  /\ cycle_start' = processed_ingredients[ingredient_enum]
  /\ sub_run' = 0
  /\ accepted_sum' = 0
  /\ pc' = "cutter_init"
  /\ UNCHANGED <<grams, table_position, pos_at_entry, scenVars,
                 wait_ret, order, ing_todo, ingredient_enum, pre_process_weight,
                 evVars, omVars, mapVars, cutVars, resVars,
                 cutter_connected, cutter_link, currentPosition, ing_accepted>>

\* the first reading and its display, made before the try block; the UI's
\* scale update raises when the UI object does not provide it
RunCutterInit ==
  /\ pc = "cutter_init"
  /\ \E r \in Samples, ui_ok \in BOOLEAN :
       /\ last_weight' = ReadOrZero(r)
       /\ IF ui_ok
          THEN pc' = "cutter_loop" /\ UNCHANGED exit_kind
          ELSE pc' = "cutter_left" /\ exit_kind' = "error_before_loop"
  /\ no_change_count' = 0
  /\ UNCHANGED <<detections, grams, table_position, pos_at_entry, scenVars,
                 wait_ret, order, ing_todo, ingredient_enum, pre_process_weight,
                 evVars, omVars, mapVars, w, reading, delta, resVars, hwVars, histVars>>

\* while not self._stop_event.is_set()
RunCutterLoop ==
  /\ pc = "cutter_loop"
  /\ IF stop_event
     THEN pc' = "cutter_finally" /\ exit_kind' = "cancelled"
     ELSE pc' = "cutter_sample" /\ UNCHANGED exit_kind
  /\ UNCHANGED <<detections, grams, table_position, pos_at_entry, scenVars,
                 wait_ret, order, ing_todo, ingredient_enum, pre_process_weight,
                 evVars, omVars, mapVars, last_weight, no_change_count, w, reading, delta,
                 resVars, hwVars, histVars>>

\* one sample: poll sleep, read, filter, detector, completion and stall checks
RunCutterSample ==
  /\ pc = "cutter_sample"
  /\ \E r \in Samples, ui_ok \in BOOLEAN :
       IF r # None /\ ~ui_ok
       THEN /\ pc' = "cutter_finally"
            /\ exit_kind' = "error"
            /\ reading' = r
            /\ UNCHANGED <<mapVars, last_weight, no_change_count, w, delta, sub_run,
                           accepted_sum, ing_accepted>>
       ELSE LET wv == Fallback(r, last_weight)
                d == MassFilter(last_weight, wv)
                i == ingredient_enum
                acc == Accumulate(OrZero(processed_ingredients[i]), d)
                ncc == NextNoChange(no_change_count, d)
            IN /\ w' = wv
               /\ reading' = r
               /\ delta' = d
               /\ processed_ingredients' = [processed_ingredients EXCEPT ![i] = acc]
               /\ no_change_count' = ncc
               /\ last_weight' = NewLast(last_weight, wv)
               /\ sub_run' = IF d < weight_stable_threshold THEN sub_run + 1 ELSE 0
               /\ accepted_sum' = accepted_sum + (IF d >= weight_stable_threshold THEN d ELSE 0)
               /\ ing_accepted' = ing_accepted + (IF d >= weight_stable_threshold THEN d ELSE 0)
               /\ pc' = IF TargetReached(acc, required_ingredients[i]) THEN "done_deactivate"
                        ELSE IF StallDetected(ncc) THEN "stall_deactivate"
                        ELSE "cutter_loop"
               /\ UNCHANGED <<required_ingredients, exit_kind>>
  /\ UNCHANGED <<detections, grams, table_position, pos_at_entry, scenVars,
                 wait_ret, order, ing_todo, ingredient_enum, pre_process_weight,
                 evVars, omVars, resVars, hwVars, deact_count, cycle_start>>

\* Done: self.cutter.deactivate() before the turntable advance
RunCutterDoneDeactivate ==
  /\ pc = "done_deactivate"
  /\ Cutter_deactivate
  /\ deact_count' = deact_count + 1
  /\ pc' = "rotate_turntable"
  /\ UNCHANGED <<detections, grams, table_position, pos_at_entry, scenVars,
                 wait_ret, order, ing_todo, ingredient_enum, pre_process_weight,
                 evVars, omVars, mapVars, cutVars, resVars,
                 cutter_connected, cutter_link, currentPosition, cycle_start, sub_run,
                 accepted_sum, ing_accepted>>

next_pos(position) == (position + 1) % numPositions

\* variant: the turntable is advanced by two positions
RotateTurntable_TwoSteps ==
  /\ pc = "rotate_turntable"
  /\ table_position' = next_pos(next_pos(currentPosition))
  /\ currentPosition' = next_pos(next_pos(currentPosition))
  /\ pc' = "resume_activate"
  /\ UNCHANGED <<detections, grams, pos_at_entry, scenVars,
                 wait_ret, order, ing_todo, ingredient_enum, pre_process_weight,
                 evVars, omVars, mapVars, cutVars, resVars,
                 cutter_connected, cutter_link, plug_on, histVars>>

\* moveToPosition(next_pos), then the position is recorded
RotateTurntable ==
  /\ pc = "rotate_turntable"
  /\ table_position' = next_pos(currentPosition)
  /\ currentPosition' = table_position'
  /\ pc' = "resume_activate"
  /\ UNCHANGED <<detections, grams, pos_at_entry, scenVars,
                 wait_ret, order, ing_todo, ingredient_enum, pre_process_weight,
                 evVars, omVars, mapVars, cutVars, resVars,
                 cutter_connected, cutter_link, plug_on, histVars>>

\* ---- main_flow.py: settle phase -----------------------------------------
ResumeActivate ==
  /\ pc = "resume_activate"
  /\ Cutter_activate
  /\ pc' = "resume_init"
  /\ UNCHANGED <<detections, grams, table_position, pos_at_entry, scenVars,
                 wait_ret, order, ing_todo, ingredient_enum, pre_process_weight,
                 evVars, omVars, mapVars, cutVars, resVars,
                 cutter_connected, cutter_link, currentPosition, histVars>>

\* stable_count, first reading and its display, before the try block: an
\* error here leaves _resume_until_stable and unwinds into the executor's finally
ResumeInit ==
  /\ pc = "resume_init"
  /\ stable_count' = 0
  /\ \E r \in Samples, ui_ok \in BOOLEAN :
       /\ last' = ReadOrZero(r)
       /\ IF ui_ok
          THEN pc' = "resume_loop" /\ UNCHANGED exit_kind
          ELSE pc' = "cutter_finally" /\ exit_kind' = "error"
  /\ UNCHANGED <<detections, grams, table_position, pos_at_entry, scenVars,
                 wait_ret, order, ing_todo, ingredient_enum, pre_process_weight,
                 evVars, omVars, mapVars, last_weight, no_change_count, w, reading, delta,
                 hwVars, histVars>>

ResumeLoop ==
  /\ pc = "resume_loop"
  /\ pc' = IF stable_count < finish_no_change_checks /\ ~stop_event
           THEN "resume_sample" ELSE "resume_finally"
  /\ UNCHANGED <<detections, grams, table_position, pos_at_entry, scenVars,
                 wait_ret, order, ing_todo, ingredient_enum, pre_process_weight,
                 evVars, omVars, mapVars, cutVars, resVars, hwVars, histVars>>

ResumeSample ==
  /\ pc = "resume_sample"
  /\ \E r \in Samples, ui_ok \in BOOLEAN :
       IF ~ui_ok
       THEN /\ pc' = "resume_finally"
            /\ exit_kind' = "error"
            /\ UNCHANGED resVars
       ELSE LET wv == Fallback(r, last)
            IN /\ stable_count' = NextStable(stable_count, wv, last)
               /\ last' = wv
               /\ pc' = "resume_loop"
               /\ UNCHANGED exit_kind
  /\ UNCHANGED <<detections, grams, table_position, pos_at_entry, scenVars,
                 wait_ret, order, ing_todo, ingredient_enum, pre_process_weight,
                 evVars, omVars, mapVars, last_weight, no_change_count, w, reading, delta,
                 hwVars, histVars>>

\* finally of _resume_until_stable, then back in the executor: break, or the
\* error goes on unwinding; both reach the executor's finally
ResumeFinally ==
  /\ pc = "resume_finally"
  /\ Cutter_deactivate
  /\ deact_count' = deact_count + 1
  /\ exit_kind' = IF exit_kind = "error" THEN "error" ELSE "done"
  /\ pc' = "cutter_finally"
  /\ UNCHANGED <<detections, grams, table_position, pos_at_entry, scenVars,
                 wait_ret, order, ing_todo, ingredient_enum, pre_process_weight,
                 evVars, omVars, mapVars, last_weight, no_change_count, w, reading, delta,
                 resVars, cutter_connected, cutter_link, currentPosition,
                 cycle_start, sub_run, accepted_sum, ing_accepted>>

\* ---- main_flow.py: stall, finally ---------------------------------------
RunCutterStallDeactivate ==
  /\ pc = "stall_deactivate"
  /\ Cutter_deactivate
  /\ deact_count' = deact_count + 1
  /\ Wait("stall_return")
  /\ UNCHANGED <<detections, grams, table_position, pos_at_entry, scenVars,
                 order, ing_todo, ingredient_enum, pre_process_weight,
                 evVars, omVars, mapVars, cutVars, resVars,
                 cutter_connected, cutter_link, currentPosition, cycle_start, sub_run,
                 accepted_sum, ing_accepted>>

\* variant: the stall branch advances the turntable as well
RunCutterStallReturn_Rotates ==
  /\ pc = "stall_return"
  /\ exit_kind' = "stalled"
  /\ pc' = "cutter_finally"
  /\ table_position' = next_pos(currentPosition)
  /\ currentPosition' = next_pos(currentPosition)
  /\ UNCHANGED <<detections, grams, pos_at_entry, scenVars,
                 wait_ret, order, ing_todo, ingredient_enum, pre_process_weight,
                 evVars, omVars, mapVars, last_weight, no_change_count, w, reading, delta,
                 resVars, cutter_connected, cutter_link, plug_on, histVars>>

RunCutterStallReturn ==
  /\ pc = "stall_return"
  /\ exit_kind' = "stalled"
  /\ pc' = "cutter_finally"
  /\ UNCHANGED <<detections, grams, table_position, pos_at_entry, scenVars,
                 wait_ret, order, ing_todo, ingredient_enum, pre_process_weight,
                 evVars, omVars, mapVars, last_weight, no_change_count, w, reading, delta,
                 resVars, hwVars, histVars>>

\* variant: the executor has no finally clause
RunCutterFinally_NoDeactivate ==
  /\ pc = "cutter_finally"
  /\ pc' = "cutter_left"
  /\ UNCHANGED <<detections, grams, table_position, pos_at_entry, scenVars,
                 wait_ret, order, ing_todo, ingredient_enum, pre_process_weight,
                 evVars, omVars, mapVars, cutVars, resVars, hwVars, histVars>>

RunCutterFinally ==
  /\ pc = "cutter_finally"
  /\ Cutter_deactivate
  /\ deact_count' = deact_count + 1
  /\ pc' = "cutter_left"
  /\ UNCHANGED <<detections, grams, table_position, pos_at_entry, scenVars,
                 wait_ret, order, ing_todo, ingredient_enum, pre_process_weight,
                 evVars, omVars, mapVars, cutVars, resVars,
                 cutter_connected, cutter_link, currentPosition, cycle_start, sub_run,
                 accepted_sum, ing_accepted>>

Errors == {"error", "error_before_loop"}

\* control is back in _process_ingredient, or the error unwinds out of run()
RunCutterLeft ==
  /\ pc = "cutter_left"
  /\ pc' = IF exit_kind \in Errors THEN "crashed" ELSE "ingredient_loop"
  /\ last_weight' = 0
  /\ no_change_count' = 0
  /\ w' = 0
  /\ reading' = None
  /\ delta' = 0
  /\ exit_kind' = "none"
  /\ stable_count' = 0
  /\ last' = 0
  /\ UNCHANGED <<detections, grams, table_position, pos_at_entry, scenVars,
                 wait_ret, order, ing_todo, ingredient_enum, pre_process_weight,
                 evVars, omVars, mapVars, hwVars, histVars>>

\* ---- main_flow.py: stop(), called by main.py when the GUI loop ends -----
StopSetEvent ==
  /\ stop_pc = "mainloop"
  /\ stop_event' = TRUE
  /\ stop_pc' = "camera_shutdown"
  /\ UNCHANGED <<detections, grams, table_position, pos_at_entry, scenVars,
                 ctlVars, continue_event, omVars, mapVars, cutVars, resVars, hwVars, histVars>>

StopCameraShutdown ==
  /\ stop_pc = "camera_shutdown"
  /\ stop_pc' = "cutter_cleanup"
  /\ UNCHANGED <<detections, grams, table_position, pos_at_entry, scenVars,
                 ctlVars, stop_event, continue_event, omVars, mapVars, cutVars, resVars,
                 hwVars, histVars>>

\* Cutter.cleanup: loop_stop and disconnect; Cutter.connected stays as it was
StopCutterCleanup ==
  /\ stop_pc = "cutter_cleanup"
  /\ cutter_link' = FALSE
  /\ stop_pc' = "load_cell_cleanup"
  /\ UNCHANGED <<detections, grams, table_position, pos_at_entry, scenVars,
                 ctlVars, stop_event, continue_event, omVars, mapVars, cutVars, resVars,
                 cutter_connected, plug_on, currentPosition, histVars>>

StopLoadCellCleanup ==
  /\ stop_pc = "load_cell_cleanup"
  /\ stop_pc' = "turntable_cleanup"
  /\ UNCHANGED <<detections, grams, table_position, pos_at_entry, scenVars,
                 ctlVars, stop_event, continue_event, omVars, mapVars, cutVars, resVars,
                 hwVars, histVars>>

StopTurntableCleanup ==
  /\ stop_pc = "turntable_cleanup"
  /\ stop_pc' = "stopped"
  /\ UNCHANGED <<detections, grams, table_position, pos_at_entry, scenVars,
                 ctlVars, stop_event, continue_event, omVars, mapVars, cutVars, resVars,
                 hwVars, histVars>>

\* ---- specification ------------------------------------------------------
Controller ==
  \/ Run
  \/ WaitForOrder
  \/ WaitForOrderAddTestOrder
  \/ ProcessOrderMarkInProgress
  \/ ProcessOrderFetchIngredients
  \/ ProcessOrderNextIngredient
  \/ ProcessOrderComplete
  \/ ProcessIngredientLoop
  \/ PromptUserToPlace
  \/ CheckQuality
  \/ FinishIngredient
  \/ WaitForContinueClear
  \/ WaitForContinueWake
  \/ RunCutterActivate
  \/ RunCutterInit
  \/ RunCutterLoop
  \/ RunCutterSample
  \/ RunCutterDoneDeactivate
  \/ RotateTurntable
  \/ ResumeActivate
  \/ ResumeInit
  \/ ResumeLoop
  \/ ResumeSample
  \/ ResumeFinally
  \/ RunCutterStallDeactivate
  \/ RunCutterStallReturn
  \/ RunCutterFinally
  \/ RunCutterLeft

Stop ==
  \/ StopSetEvent
  \/ StopCameraShutdown
  \/ StopCutterCleanup
  \/ StopLoadCellCleanup
  \/ StopTurntableCleanup

Next == Controller \/ Stop \/ InternalOnContinueClick

Spec == Init /\ [][Next]_vars

\* The worker thread and the main thread run whenever they can; nothing makes
\* the operator click.
FairSpec == Spec /\ WF_vars(Controller) /\ WF_vars(Stop)

\* ---- the run the top-level loop is written for --------------------------
\* No collaborator call raises, stop() is never called, the operator
\* acknowledges every prompt and placements pass the quality gate again and
\* again. Nothing is assumed about the readings of the scale.
NoRaise ==
  /\ pc' # "crashed"
  /\ exit_kind' \notin Errors
  /\ ~(pc = "fetch_ingredients" /\ pc' = "run")

LiveController == Controller /\ NoRaise

LiveNext == LiveController \/ InternalOnContinueClick

LiveSpec ==
  /\ Init
  /\ [][LiveNext]_vars
  /\ WF_vars(LiveController)
  /\ WF_vars(InternalOnContinueClick /\ pc = "wait_blocked")
  /\ SF_vars(CheckQuality /\ pc' = "cutter_activate")

\* ---- the detector of _run_cutter_until_weight_reached on its own ----------
\* The sample loop reads its threshold and its limit from the controller's
\* attributes and its target from required_ingredients; here the same loop
\* body is driven with a chosen tuning and a chosen stream of filtered deltas.
MaxFed == 6

ScenarioA == [target |-> 100, threshold |-> 10, limit |-> 3]
ScenarioB == [target |-> 50, threshold |-> 10, limit |-> 3]
Scenarios == {ScenarioA, ScenarioB}
ScenDeltas == {0, 3, 5, 15, 40}
ScenarioBDeltas == <<5, 3, 5, 0, 0, 0>>

\* variant: every delta is credited to the accumulator
DetectorStep_CreditsAll(d, s, c) ==
  LET acc == d.accumulated + s
      ncc == IF s >= c.threshold THEN 0 ELSE d.no_change_count + 1
  IN [accumulated |-> acc, no_change_count |-> ncc,
      state |-> IF acc >= c.target THEN "Done"
                ELSE IF ncc >= c.limit THEN "Stalled" ELSE "Running"]

\* one pass of the loop body on the filtered delta s: credit or count, then
\* the completion test, then the stall test
DetectorStep(d, s, c) ==
  LET acc == IF s >= c.threshold THEN d.accumulated + s ELSE d.accumulated
      ncc == IF s >= c.threshold THEN 0 ELSE d.no_change_count + 1
  IN [accumulated |-> acc, no_change_count |-> ncc,
      state |-> IF acc >= c.target THEN "Done"
                ELSE IF ncc >= c.limit THEN "Stalled" ELSE "Running"]

DetInit ==
  /\ InitController
  /\ InitTurntable(0)
  /\ scen \in Scenarios
  /\ det = DetectorIdle
  /\ fed = <<>>
  /\ InitTeardown
  /\ InitLock
  /\ InitCamera
  /\ InitUnits

DetectorFeed ==
  /\ det.state \in {"Idle", "Running"}
  /\ Len(fed) < MaxFed
  /\ \E s \in ScenDeltas :
       /\ det' = DetectorStep(det, s, scen)
       /\ fed' = Append(fed, s)
  /\ UNCHANGED <<scen, tearVars, lockVars, camVars, unitVars, ctlVars, evVars, omVars, mapVars, cutVars, resVars,
                 hwVars, histVars, qualVars, turnVars>>

\* after the stall acknowledgement the executor is entered again: the counter
\* starts at zero, the accumulator is the one the map already holds
DetectorRestart ==
  /\ det.state = "Stalled"
  /\ det' = [det EXCEPT !.no_change_count = 0, !.state = "Running"]
  /\ UNCHANGED <<scen, fed, tearVars, lockVars, camVars, unitVars, ctlVars, evVars, omVars, mapVars, cutVars, resVars,
                 hwVars, histVars, qualVars, turnVars>>

DetNext == DetectorFeed \/ DetectorRestart

DetSpec == DetInit /\ [][DetNext]_vars

\* ---- stop() with the outcome of every teardown ---------------------------
\* Each teardown call sits in its own try/except Exception: whether it
\* returns or raises, stop() goes on to the next one.
NextTeardown(at) ==
  CASE at = "camera_shutdown" -> "cutter_cleanup"
    [] at = "cutter_cleanup" -> "load_cell_cleanup"
    [] at = "load_cell_cleanup" -> "turntable_cleanup"
    [] at = "turntable_cleanup" -> "stopped"

\* variant: the teardown calls share one try block, so an exception ends stop()
Teardown_OneGuard(c, at, raises) ==
  /\ stop_pc = at
  /\ teardown_attempts' = [teardown_attempts EXCEPT ![c] = @ + 1]
  /\ teardown_raised' = IF raises THEN teardown_raised \cup {c} ELSE teardown_raised
  /\ stop_pc' = IF raises THEN "stopped" ELSE NextTeardown(at)

Teardown(c, at, raises) ==
  /\ stop_pc = at
  /\ teardown_attempts' = [teardown_attempts EXCEPT ![c] = @ + 1]
  /\ teardown_raised' = IF raises THEN teardown_raised \cup {c} ELSE teardown_raised
  /\ stop_pc' = NextTeardown(at)

TeardownCamera ==
  /\ \E raises \in BOOLEAN : Teardown("camera", "camera_shutdown", raises)
  /\ UNCHANGED <<scen, det, fed, lockVars, camVars, unitVars, ctlVars, stop_event, continue_event, omVars, mapVars,
                 cutVars, resVars, hwVars, histVars, qualVars, turnVars>>

\* a cleanup that raised may or may not have closed the session before
TeardownCutter ==
  /\ \E raises \in BOOLEAN :
       /\ Teardown("cutter", "cutter_cleanup", raises)
       /\ \E closed \in (IF raises THEN BOOLEAN ELSE {TRUE}) :
            cutter_link' = IF closed THEN FALSE ELSE cutter_link
  /\ UNCHANGED <<scen, det, fed, lockVars, camVars, unitVars, ctlVars, stop_event, continue_event, omVars, mapVars,
                 cutVars, resVars, cutter_connected, plug_on, currentPosition,
                 histVars, qualVars, turnVars>>

TeardownLoadCell ==
  /\ \E raises \in BOOLEAN : Teardown("load_cell", "load_cell_cleanup", raises)
  /\ UNCHANGED <<scen, det, fed, lockVars, camVars, unitVars, ctlVars, stop_event, continue_event, omVars, mapVars,
                 cutVars, resVars, hwVars, histVars, qualVars, turnVars>>

TeardownTurntable ==
  /\ \E raises \in BOOLEAN : Teardown("turntable", "turntable_cleanup", raises)
  /\ UNCHANGED <<scen, det, fed, lockVars, camVars, unitVars, ctlVars, stop_event, continue_event, omVars, mapVars,
                 cutVars, resVars, hwVars, histVars, qualVars, turnVars>>

StopNext ==
  \/ StopSetEvent
  \/ TeardownCamera
  \/ TeardownCutter
  \/ TeardownLoadCell
  \/ TeardownTurntable

StopSpec == Init /\ [][StopNext]_vars

\* ---- the statements around MainController._lock -------------------------
\* _process_order's for-loop body and the crediting part of the sample loop,
\* one action per lock operation and per statement group between them. The
\* worker is the only thread that enters a with block; stop() and the GUI
\* handler run beside it.
LockDeltas == {MassFilter(a, b) : a, b \in Readings}

LockFrame ==
  UNCHANGED <<scen, det, fed, tearVars, camVars, unitVars, pc, wait_ret, ing_todo, ingredient_enum,
              pre_process_weight, evVars, omVars, resVars, hwVars, histVars,
              qualVars, turnVars, last_weight, no_change_count, w, reading, exit_kind>>

\* variant: the statements are not inside a with block
Acquire_NoLock(at, to) ==
  /\ lock_pc = at
  /\ lock_pc' = to
  /\ UNCHANGED lock_owner

\* with self._lock: entry
Acquire(at, to) ==
  /\ lock_pc = at
  /\ lock_owner = "none"
  /\ lock_owner' = "worker"
  /\ lock_pc' = to

\* with self._lock: exit
Release(to) ==
  /\ lock_owner' = "none"
  /\ lock_pc' = to

\* the loop body is entered for the next order's ingredient
LockEntryAcquire ==
  /\ order < MaxOrders
  /\ order' = order + 1
  /\ Acquire("order_entry", "entry_locked")
  /\ UNCHANGED <<mapVars, delta>>
  /\ LockFrame

\* first use of the ingredient: both maps get their entry
LockEntryInit ==
  /\ lock_pc = "entry_locked"
  /\ processed_ingredients' =
       [i \in Ingredient |-> OrZero(processed_ingredients[i])]
  /\ required_ingredients' =
       [i \in Ingredient |-> OrZero(required_ingredients[i])]
  /\ Release("add_required")
  /\ UNCHANGED <<order, delta>>
  /\ LockFrame

\* self.required_ingredients[ingredient_enum] += required_grams, no lock held
LockAddRequired ==
  /\ lock_pc = "add_required"
  /\ \E g \in OrderGrams :
       required_ingredients' = [i \in Ingredient |-> required_ingredients[i] + g]
  /\ lock_pc' = "sample"
  /\ UNCHANGED <<lock_owner, order, processed_ingredients, delta>>
  /\ LockFrame

\* a filtered delta arrives; only one that is credited needs the lock
LockSample ==
  /\ lock_pc = "sample"
  /\ \E d \in LockDeltas :
       /\ delta' = d
       /\ lock_pc' = IF Accepted(d) THEN "credit" ELSE "check"
  /\ UNCHANGED <<lock_owner, order, mapVars>>
  /\ LockFrame

LockCreditAcquire ==
  /\ Acquire("credit", "credit_locked")
  /\ UNCHANGED <<order, mapVars, delta>>
  /\ LockFrame

\* processed_ingredients[i] = processed_ingredients.get(i, 0.0) + delta
LockCredit ==
  /\ lock_pc = "credit_locked"
  /\ processed_ingredients' =
       [i \in Ingredient |-> Accumulate(OrZero(processed_ingredients[i]), delta)]
  /\ Release("check")
  /\ UNCHANGED <<order, required_ingredients, delta>>
  /\ LockFrame

LockCheckAcquire ==
  /\ Acquire("check", "check_locked")
  /\ UNCHANGED <<order, mapVars, delta>>
  /\ LockFrame

\* processed = processed_ingredients.get(i, 0.0) under the lock, then the
\* completion test: the next order, or the next sample
LockCheck ==
  /\ lock_pc = "check_locked"
  /\ Release(IF \A i \in Ingredient :
                  TargetReached(processed_ingredients[i], required_ingredients[i])
             THEN "order_entry" ELSE "sample")
  /\ UNCHANGED <<order, mapVars, delta>>
  /\ LockFrame

LockWorker ==
  \/ LockEntryAcquire
  \/ LockEntryInit
  \/ LockAddRequired
  \/ LockSample
  \/ LockCreditAcquire
  \/ LockCredit
  \/ LockCheckAcquire
  \/ LockCheck

LockNext == LockWorker \/ Stop \/ InternalOnContinueClick

LockSpec == Init /\ [][LockNext]_vars

\* ---- camera_controller.py: the two users of the capture file -------------
\* get_latest_objects on the controller worker and _continuous_loop on the
\* camera's background thread, one action per lock operation and per
\* statement group between them. Both capture into the file at save_path.
MaxCaptures == 2

CamFrame ==
  UNCHANGED <<scen, det, fed, tearVars, lockVars, unitVars, ctlVars, evVars, omVars, mapVars,
              cutVars, resVars, hwVars, histVars, qualVars, turnVars>>

\* with self._lock: entry, on the worker
CamWorkerAcquire ==
  /\ cam_pc = "idle"
  /\ cam_count["worker"] < MaxCaptures
  /\ cam_lock = "none"
  /\ cam_lock' = "worker"
  /\ cam_pc' = "capture"
  /\ UNCHANGED <<bg_pc, cam_file, cam_seen, cam_count>>
  /\ CamFrame

\* picam2.capture_file(tmp_path), then the with block ends
CamWorkerCapture ==
  /\ cam_pc = "capture"
  /\ cam_count' = [cam_count EXCEPT !["worker"] = @ + 1]
  /\ cam_file' = [by |-> "worker", n |-> cam_count'["worker"]]
  /\ cam_lock' = "none"
  /\ cam_pc' = "infer"
  /\ UNCHANGED <<bg_pc, cam_seen>>
  /\ CamFrame

\* results = self.model(tmp_path): reads whatever the file holds now
CamWorkerInfer ==
  /\ cam_pc = "infer"
  /\ cam_seen' = cam_file
  /\ cam_pc' = "annotate"
  /\ UNCHANGED <<cam_lock, bg_pc, cam_file, cam_count>>
  /\ CamFrame

\* annotate_image: imread, draw, imwrite to save_path, hand it to the UI
CamWorkerAnnotate ==
  /\ cam_pc = "annotate"
  /\ cam_pc' = "idle"
  /\ UNCHANGED <<cam_lock, bg_pc, cam_file, cam_seen, cam_count>>
  /\ CamFrame

\* with self._lock: entry, on the background thread (its stop event is clear
\* until stop_continuous_mode)
CamBackgroundAcquire ==
  /\ bg_pc = "loop"
  /\ cam_count["background"] < MaxCaptures
  /\ cam_lock = "none"
  /\ cam_lock' = "background"
  /\ bg_pc' = "capture"
  /\ UNCHANGED <<cam_pc, cam_file, cam_seen, cam_count>>
  /\ CamFrame

CamBackgroundCapture ==
  /\ bg_pc = "capture"
  /\ cam_count' = [cam_count EXCEPT !["background"] = @ + 1]
  /\ cam_file' = [by |-> "background", n |-> cam_count'["background"]]
  /\ cam_lock' = "none"
  /\ bg_pc' = "process"
  /\ UNCHANGED <<cam_pc, cam_seen>>
  /\ CamFrame

\* model, annotate (guarded), sleep, next turn of the loop
CamBackgroundProcess ==
  /\ bg_pc = "process"
  /\ bg_pc' = "loop"
  /\ UNCHANGED <<cam_lock, cam_pc, cam_file, cam_seen, cam_count>>
  /\ CamFrame

CamNext ==
  \/ CamWorkerAcquire
  \/ CamWorkerCapture
  \/ CamWorkerInfer
  \/ CamWorkerAnnotate
  \/ CamBackgroundAcquire
  \/ CamBackgroundCapture
  \/ CamBackgroundProcess

CamSpec == Init /\ [][CamNext]_vars

\* ---- controls.py: the Cutter on its own ---------------------------------
\* Any caller, any order of connect, activate, deactivate and cleanup; every
\* call is logged with whether it raised.
MaxCalls == 3

Call(op, raised) == [op |-> op, raised |-> raised]

CutterFrame ==
  UNCHANGED <<scen, det, fed, tearVars, lockVars, camVars, scale_hist, ack,
              om_call, ctlVars, evVars,
              omVars, mapVars, cutVars, resVars, currentPosition, histVars, qualVars,
              turnVars>>

\* connect(): client.connect raises when the broker is unreachable; otherwise
\* the session comes up and on_connect sets connected
CutterConnect ==
  /\ Len(cut_log) < MaxCalls
  /\ \E reachable \in BOOLEAN :
       IF reachable
       THEN /\ cutter_connected' = TRUE
            /\ cutter_link' = TRUE
            /\ cut_log' = Append(cut_log, Call("connect", FALSE))
       ELSE /\ UNCHANGED <<cutter_connected, cutter_link>>
            /\ cut_log' = Append(cut_log, Call("connect", TRUE))
  /\ UNCHANGED plug_on
  /\ CutterFrame

CutterActivate ==
  /\ Len(cut_log) < MaxCalls
  /\ Cutter_activate
  /\ cut_log' = Append(cut_log, Call("activate", FALSE))
  /\ UNCHANGED <<cutter_connected, cutter_link>>
  /\ CutterFrame

CutterDeactivate_Toggles ==
  /\ Len(cut_log) < MaxCalls
  /\ plug_on' = IF Delivered THEN ~plug_on ELSE plug_on
  /\ cut_log' = Append(cut_log, Call("deactivate", FALSE))
  /\ UNCHANGED <<cutter_connected, cutter_link>>
  /\ CutterFrame

\* deactivate(): the guard returns after a warning, publish does not raise
CutterDeactivate ==
  /\ Len(cut_log) < MaxCalls
  /\ Cutter_deactivate
  /\ cut_log' = Append(cut_log, Call("deactivate", FALSE))
  /\ UNCHANGED <<cutter_connected, cutter_link>>
  /\ CutterFrame

\* cleanup(): loop_stop and disconnect; connected keeps its value
CutterCleanup ==
  /\ Len(cut_log) < MaxCalls
  /\ cutter_link' = FALSE
  /\ cut_log' = Append(cut_log, Call("cleanup", FALSE))
  /\ UNCHANGED <<cutter_connected, plug_on>>
  /\ CutterFrame

CutterNext ==
  \/ CutterConnect
  \/ CutterActivate
  \/ CutterDeactivate
  \/ CutterCleanup

CutterSpec == Init /\ [][CutterNext]_vars

\* ---- main_flow.py: one cut-cycle against the scale ----------------------
\* The sample loop of _run_cutter_until_weight_reached with the scale as its
\* environment: the mass on the scale when the cycle starts, a first reading
\* that succeeds or fails, then raw readings. accepted_sum is what the cycle
\* has credited.
Higher(a, b) == IF a > b THEN a ELSE b

ScaleFrame ==
  UNCHANGED <<scen, det, fed, tearVars, lockVars, camVars, cut_log, ack,
              om_call, ctlVars, evVars,
              omVars, mapVars, exit_kind, resVars, hwVars, deact_count, cycle_start,
              sub_run, ing_accepted, qualVars, turnVars>>

\* last_weight = self.load_cell.get_weight() or 0.0; no_change_count = 0
ScaleCycleInit ==
  /\ scale_hist.phase = "idle"
  /\ \E mass \in Readings, read_ok \in BOOLEAN, target \in OrderGrams :
       LET r == IF read_ok THEN mass ELSE None
       IN /\ last_weight' = ReadOrZero(r)
          /\ scale_hist' = [phase |-> "sampling", start |-> mass, highest |-> r,
                            target |-> target]
  /\ no_change_count' = 0
  /\ accepted_sum' = 0
  /\ UNCHANGED <<w, delta, reading>>
  /\ ScaleFrame

\* one turn of the while loop, as long as neither exit test has fired
ScaleSample ==
  /\ scale_hist.phase = "sampling"
  /\ ~TargetReached(accepted_sum, scale_hist.target)
  /\ ~StallDetected(no_change_count)
  /\ \E r \in Samples :
       LET wv == Fallback(r, last_weight)
           d == MassFilter(last_weight, wv)
       IN /\ reading' = r
          /\ w' = wv
          /\ delta' = d
          /\ accepted_sum' = Accumulate(accepted_sum, d)
          /\ no_change_count' = NextNoChange(no_change_count, d)
          /\ last_weight' = NewLast(last_weight, wv)
          /\ scale_hist' = [scale_hist EXCEPT !.highest = Higher(@, r)]
  /\ ScaleFrame

\* the cycle is left: target reached, stall or cancellation
ScaleCycleEnd ==
  /\ scale_hist.phase = "sampling"
  /\ scale_hist' = ScaleIdle
  /\ UNCHANGED <<last_weight, no_change_count, w, delta, reading, accepted_sum>>
  /\ ScaleFrame

ScaleNext == ScaleCycleInit \/ ScaleSample \/ ScaleCycleEnd

ScaleSpec == Init /\ [][ScaleNext]_vars

\* ---- dashboard_ui.py: the Continue handshake on its own ------------------
\* One waiter calling wait_for_continue(timeout) again and again, the operator
\* pressing Continue at any time. ack counts the presses, those made since
\* the waiter's last clear(), and the waits that returned True.
MaxPresses == 3

AckFrame ==
  UNCHANGED <<scen, det, fed, tearVars, lockVars, camVars, cut_log, scale_hist,
              om_call, ctlVars,
              stop_event, stop_pc, omVars, mapVars, cutVars, resVars, hwVars, histVars,
              qualVars, turnVars>>

\* the call is made; nothing has been cleared yet
AckEnter ==
  /\ ack.phase = "idle"
  /\ ack.released < MaxPresses
  /\ ack' = [ack EXCEPT !.phase = "entered", !.result = "none", !.timed_out = FALSE]
  /\ UNCHANGED continue_event
  /\ AckFrame

\* variant: the wait does not clear the event first
AckClear_KeepsEvent ==
  /\ ack.phase = "entered"
  /\ UNCHANGED continue_event
  /\ ack' = [ack EXCEPT !.phase = "waiting"]
  /\ AckFrame

\* self.continue_event.clear()
AckClear ==
  /\ ack.phase = "entered"
  /\ continue_event' = FALSE
  /\ ack' = [ack EXCEPT !.phase = "waiting", !.fresh = 0]
  /\ AckFrame

\* self.continue_event.wait(timeout) finds the event set: True
AckReturnTrue ==
  /\ ack.phase = "waiting"
  /\ continue_event
  /\ ack' = [ack EXCEPT !.phase = "idle", !.result = "true", !.released = @ + 1]
  /\ UNCHANGED continue_event
  /\ AckFrame

\* the timeout runs out with the event not set: False
AckReturnFalse ==
  /\ ack.phase = "waiting"
  /\ ~continue_event
  /\ ack' = [ack EXCEPT !.phase = "idle", !.result = "false", !.timed_out = TRUE]
  /\ UNCHANGED continue_event
  /\ AckFrame

\* _internal_on_continue_click on the GUI thread
AckPress ==
  /\ ack.presses < MaxPresses
  /\ continue_event' = TRUE
  /\ ack' = [ack EXCEPT !.presses = @ + 1, !.fresh = @ + 1]
  /\ AckFrame

AckNext ==
  \/ AckEnter
  \/ AckClear
  \/ AckReturnTrue
  \/ AckReturnFalse
  \/ AckPress

AckSpec == Init /\ [][AckNext]_vars

\* ---- order_manager.py: the OrderManager on its own -----------------------
\* Any sequence of add_order and remove_order calls, remove_order with indexes
\* inside and outside the list.
MaxAdds == 4

\* grams an order can ask for
QueueGrams == {0, 100, 150}

OmFrame ==
  UNCHANGED <<scen, det, fed, tearVars, lockVars, camVars, cut_log, scale_hist, ack,
              ctlVars, evVars, mapVars, cutVars, resVars, hwVars, histVars, qualVars,
              turnVars>>

OmAddOrder ==
  /\ next_order_id <= MaxAdds
  /\ \E g \in QueueGrams :
       /\ orders' = add_order(orders, next_order_id, g)
       /\ ingredient_totals' = AddTotals(ingredient_totals, orders'[Len(orders')].ingredients)
  /\ next_order_id' = next_order_id + 1
  /\ om_call' = [op |-> "add", index |-> 0]
  /\ OmFrame

OmRemoveOrder ==
  /\ \E index \in -1..(Len(orders) + 1) :
       /\ om_call' = [op |-> "remove", index |-> index]
       /\ IF 0 <= index /\ index < Len(orders)
          THEN /\ orders' = Pop(orders, index)
               /\ ingredient_totals' =
                    RemoveTotals(ingredient_totals, orders[index + 1].ingredients)
          ELSE UNCHANGED <<orders, ingredient_totals>>
  /\ UNCHANGED next_order_id
  /\ OmFrame

OmNext == OmAddOrder \/ OmRemoveOrder

OmSpec == Init /\ [][OmNext]_vars

\* ---- the controller with the turntable on its last position --------------
\* numPositions - 1 completed batches have left the turntable on its last
\* position
TurnInit ==
  /\ InitController
  /\ InitTurntable(numPositions - 1)
  /\ InitHarnessIdle

TurnSpec == TurnInit /\ [][Next]_vars

TypeOK ==
  /\ stop_event \in BOOLEAN
  /\ continue_event \in BOOLEAN
  /\ plug_on \in BOOLEAN
  /\ currentPosition \in 0..(numPositions - 1)
  /\ no_change_count \in 0..no_change_checks
  /\ stable_count \in 0..finish_no_change_checks
  /\ Len(orders) <= MaxOrders \/ Len(orders) <= MaxQueued

\* ---- properties ---------------------------------------------------------
InCycle == pc \in {"cutter_loop", "cutter_sample", "done_deactivate", "stall_deactivate"}

Processed == processed_ingredients[ingredient_enum]
Required == required_ingredients[ingredient_enum]

\* C1: whenever control leaves the cut-cycle executor after activate(), the
\* actuator is off (the actuator collaborator still being up).
C1_ActuatorOffOnReturn == (pc = "cutter_left" /\ cutter_link) => ~plug_on

C3_NoTransitionAfterCancel ==
  [][(pc = "cutter_sample" /\ stop_event)
       => pc' \notin {"done_deactivate", "stall_deactivate"}]_vars

\* C4: once stop() has set the flag, a blocked operator-acknowledgement wait
\* is released (without a click).
C4_StopReleasesWait ==
  (stop_event /\ pc = "wait_blocked") ~> (pc # "wait_blocked")

\* C5: when the executor has run its finally clause, the final deactivate has
\* taken effect: the actuator is off, whatever stop() did meanwhile.
C5_FinalDeactivateTakesEffect ==
  (pc = "cutter_left" /\ exit_kind # "error_before_loop") => ~plug_on

\* C6: once the flag is set the controller begins no new work: it marks no
\* order in-progress, issues no placement prompt, activates no cut-cycle.
C6_NoNewWorkAfterCancel ==
  [][(stop_event /\ pc \in {"process_order", "prompt_user_to_place", "cutter_activate"})
       => pc' = pc]_vars

\* C7: for the previous reading last and the sample w, the emitted delta is 0
\* if w < last, 0 if w - last > MAX_PLAUSIBLE_JUMP, and w - last otherwise; so
\* 0 <= delta <= MAX_PLAUSIBLE_JUMP, and w becomes the new last in all cases.
C7_MassFilter ==
  [][(pc = "cutter_sample" /\ pc' \in {"cutter_loop", "done_deactivate", "stall_deactivate"}) =>
       /\ w' < last_weight => delta' = 0
       /\ w' - last_weight > MAX_PLAUSIBLE_JUMP => delta' = 0
       /\ (w' >= last_weight /\ w' - last_weight <= MAX_PLAUSIBLE_JUMP)
            => delta' = w' - last_weight
       /\ 0 <= delta' /\ delta' <= MAX_PLAUSIBLE_JUMP
       /\ last_weight' = w']_vars

C7_Witness == pc = "done_deactivate" /\ delta = MAX_PLAUSIBLE_JUMP /\ last_weight = 5700

\* C8: during a cut-cycle the ingredient's accumulated mass is its value at
\* the start of the cycle plus the sum of the deltas >= S seen so far.
C8_Accumulation ==
  (InCycle \/ pc = "cutter_init") => Processed = cycle_start + accepted_sum

C8_Witness ==
  /\ pc = "cutter_loop"
  /\ delta = 200
  /\ accepted_sum = 500
  /\ Processed = cycle_start + 500

\* C9: Done is taken on the sample that makes accumulated >= target: no
\* sample is read with the target reached, the sample that reaches it goes
\* to Done, and Stalled is only taken with the target not reached.
C9_DoneOnExactSample ==
  /\ pc \in {"cutter_loop", "cutter_sample", "stall_deactivate"} => Processed < Required
  /\ pc = "done_deactivate" => (Processed >= Required /\ Accepted(delta))

C9_Witness == pc = "done_deactivate" /\ Processed = Required /\ cycle_start < Processed

\* C10: Stalled is taken on the sample that completes a run of
\* no_change_checks consecutive deltas < S and on no earlier sample of the
\* run; the counter is the length of that run, 0 after a delta >= S.
C10_StallDetection ==
  /\ InCycle => no_change_count = sub_run
  /\ pc = "stall_deactivate" => sub_run = no_change_checks
  /\ pc \in {"cutter_loop", "cutter_sample"} => sub_run < no_change_checks

C10_Witness ==
  pc = "stall_deactivate" /\ sub_run = no_change_checks /\ accepted_sum > 0

IsPrefix(a, b) == Len(a) <= Len(b) /\ \A k \in 1..Len(a) : a[k] = b[k]

\* C11 as stated: in scenario B (target 50, threshold 10, limit 3, deltas
\* 5, 3, 5, 0, 0, 0) the accumulator holds 13 g when the cycle is Stalled.
C11_StalledWith13 ==
  (scen = ScenarioB /\ IsPrefix(fed, ScenarioBDeltas) /\ det.state = "Stalled")
    => det.accumulated = 13

\* C11, amended: in scenario B each of the deltas 5, 3, 5 is below the
\* threshold, so none is credited: the cycle is Stalled exactly when the third
\* (and, after a restart, the sixth) delta has been counted, and the
\* accumulator holds 0 g throughout, before and after the restart.
C11_StalledWithNothingCredited ==
  (scen = ScenarioB /\ IsPrefix(fed, ScenarioBDeltas))
    => /\ det.accumulated = 0
       /\ det.state = "Stalled" <=> (Len(fed) \in {3, 6} /\ det.no_change_count = 3)
       /\ det.state # "Done"

C11_Witness == scen = ScenarioB /\ fed = <<5, 3, 5>> /\ det.state = "Stalled"

\* the controller's positions from the stall exit up to the first poll of the
\* restarted cut-cycle
StallToRestart ==
  {"stall_deactivate", "wait_clear", "wait_blocked", "stall_return",
   "cutter_finally", "cutter_left", "ingredient_loop", "prompt_user_to_place",
   "check_quality", "cutter_activate", "cutter_init"}

\* C12: no step between the stall and the first poll of the restarted
\* cut-cycle changes the accumulated mass; outside the executor nothing of its
\* counter and baseline is kept, and the restarted cycle begins with the
\* counter at zero and a newly read baseline.
C12_StallPreservesProgress ==
  [][ /\ pc \in StallToRestart => processed_ingredients' = processed_ingredients
      /\ pc' \in {"ingredient_loop", "prompt_user_to_place", "check_quality",
                  "cutter_activate"}
           => no_change_count' = 0 /\ last_weight' = 0
      /\ (pc = "cutter_init" /\ pc' = "cutter_loop")
           => /\ no_change_count' = 0
              /\ last_weight' \in {ReadOrZero(r) : r \in Samples} ]_vars

\* a cut-cycle restarted after a stall, with the mass of the stalled one kept
C12_Witness ==
  /\ pc = "cutter_loop"
  /\ cycle_start > pre_process_weight
  /\ Processed = cycle_start
  /\ no_change_count = 0
  /\ accepted_sum = 0

\* C13: on Done the turntable move is issued only while the actuator is off
\* (the in-line deactivate precedes it and has taken effect).
C13_IndexerMovesWithActuatorOff == pc = "rotate_turntable" => ~plug_on

\* C14 as stated: every run of the ingredient sequencer that ends with the
\* target met has advanced the turntable exactly once.
C14_OneAdvancePerBatch ==
  (pc = "finish_ingredient" /\ Processed >= Required)
    => currentPosition = next_pos(pos_at_entry)

\* C14, amended: a run of the ingredient sequencer that ends with the target
\* met has advanced the turntable exactly once if it had to cut (however many
\* cut-cycles the stalls made it take), and not at all if the target was
\* already met on entry.
C14_OneAdvancePerCutBatch ==
  (pc = "finish_ingredient" /\ Processed >= Required)
    => currentPosition = IF pre_process_weight >= Required
                         THEN pos_at_entry
                         ELSE next_pos(pos_at_entry)

\* a target met by the second cut-cycle, the first one having stalled
C14_Witness ==
  /\ pc = "finish_ingredient"
  /\ Processed >= Required
  /\ cycle_start > pre_process_weight
  /\ currentPosition = next_pos(pos_at_entry)

\* C15: the turntable position stays in 0..numPositions-1; the controller
\* changes it only in _rotate_turntable, from p to (p + 1) mod numPositions,
\* and the value it records is the position the turntable was moved to.
C15_PositionStepsByOne ==
  [][ /\ currentPosition \in 0..(numPositions - 1)
      /\ currentPosition' \in 0..(numPositions - 1)
      /\ currentPosition' = table_position'
      /\ currentPosition' # currentPosition
           => /\ pc = "rotate_turntable"
              /\ currentPosition' = (currentPosition + 1) % numPositions ]_vars

\* the advance from the last position back to position 0
C15_Witness ==
  /\ pc = "resume_activate"
  /\ pos_at_entry = numPositions - 1
  /\ currentPosition = 0

C17_RetrySamePlacement == pc = "prompt_user_to_place" => detections = NoCheck

\* C18: while the ingredient sequencer blocks for its final acknowledgement,
\* the grams it reported are the accumulated mass at exit minus the one at
\* entry, which is the sum of the deltas credited during this run, and unless
\* cancelled the target is met; it returns to the order loop only out of that
\* wait, released by the operator.
C18_FinishReportsNet ==
  [][ /\ (pc \in {"wait_clear", "wait_blocked"} /\ wait_ret = "next_ingredient")
           => /\ grams = Processed - pre_process_weight
              /\ grams = ing_accepted
              /\ ~stop_event => Processed >= Required
      /\ (pc' = "next_ingredient" /\ pc \notin {"next_ingredient", "fetch_ingredients"})
           => /\ pc = "wait_blocked"
              /\ wait_ret = "next_ingredient"
              /\ continue_event ]_vars

\* blocked for the final acknowledgement after having cut 700 g for 150 g
C18_Witness ==
  /\ pc = "wait_blocked"
  /\ wait_ret = "next_ingredient"
  /\ ~stop_event
  /\ grams = 700
  /\ Required = 150

\* C19: an order whose ingredients could not be fetched is not selected
\* again: the order handed to _process_order has not been started before.
C19_FailedOrderNotReselected ==
  pc = "process_order" => orders[order].status # "in_progress"

\* C20: no failure of a collaborator call ends run(): the top-level loop is
\* only ever left through its own test of the cancellation flag.
C20_NoFailureEndsRun == pc # "crashed"

\* C21: stop() sets the cancellation flag before any teardown; whichever
\* teardowns raise, every collaborator's teardown has been called exactly once
\* when stop() is through, none is called twice, and stop() goes through all
\* four in their order.
C21_IndependentTeardown ==
  /\ (\E c \in Collaborators : teardown_attempts[c] > 0) => stop_event
  /\ \A c \in Collaborators : teardown_attempts[c] <= 1
  /\ teardown_raised \subseteq {c \in Collaborators : teardown_attempts[c] = 1}
  /\ stop_pc = "stopped" => \A c \in Collaborators : teardown_attempts[c] = 1
  /\ stop_pc = "cutter_cleanup" => teardown_attempts["camera"] = 1
  /\ stop_pc = "load_cell_cleanup" => teardown_attempts["cutter"] = 1
  /\ stop_pc = "turntable_cleanup" => teardown_attempts["load_cell"] = 1

\* stop() is through although the camera's and the sensor's teardown raised
C21_Witness ==
  /\ stop_pc = "stopped"
  /\ teardown_raised = {"camera", "load_cell"}
  /\ teardown_attempts["cutter"] = 1
  /\ teardown_attempts["turntable"] = 1

StatusRank(status) ==
  CASE status = "pending" -> 0
    [] status = "in_progress" -> 1
    [] status = "completed" -> 2

\* the controller's positions outside _process_order
OutsideOrder ==
  \/ pc \in {"run", "returned", "wait_for_order", "add_test_order", "crashed"}
  \/ pc \in {"wait_clear", "wait_blocked"} /\ wait_ret = "add_test_order"

\* C22: no step lowers the status of an order; a status is changed only by
\* _process_order, for the order it was handed: to in_progress on entry,
\* before any ingredient, to completed once no ingredient is left; the order
\* being processed is in_progress throughout, and a completed order is never
\* handed to _process_order.
C22_StatusMovesForward ==
  [][ /\ \A k \in 1..Len(orders) :
           /\ StatusRank(orders'[k].status) >= StatusRank(orders[k].status)
           /\ orders'[k].status # orders[k].status
                => /\ k = order
                   /\ \/ pc = "process_order" /\ orders'[k].status = "in_progress"
                      \/ /\ pc = "order_completed"
                         /\ ing_todo = <<>>
                         /\ orders[k].status = "in_progress"
                         /\ orders'[k].status = "completed"
      /\ pc = "process_order" => orders[order].status # "completed"
      /\ (~OutsideOrder /\ pc # "process_order") => orders[order].status = "in_progress" ]_vars

\* the second order is being processed, the first one is completed
C22_Witness ==
  /\ Len(orders) = 2
  /\ orders[1].status = "completed"
  /\ orders[2].status = "in_progress"
  /\ pc = "finish_ingredient"

\* C23: every step that changes processed_ingredients is a step of the worker
\* made inside a with block of the controller's lock, which it holds before
\* and still holds while it writes; no step of stop() or of the GUI handler
\* changes the map, and nobody but the worker ever holds the lock.
C23_WritesUnderLock ==
  [][ /\ lock_owner \in {"none", "worker"}
      /\ processed_ingredients' # processed_ingredients
           => /\ lock_owner = "worker"
              /\ lock_pc \in {"entry_locked", "credit_locked"}
              /\ lock_pc' # lock_pc
              /\ UNCHANGED <<stop_event, stop_pc, continue_event>> ]_vars

\* the worker has credited a delta and is about to read the map again, while
\* stop() is under way
C23_Witness ==
  /\ lock_pc = "check_locked"
  /\ lock_owner = "worker"
  /\ processed_ingredients["potato"] = 1200
  /\ order = 2
  /\ stop_pc = "load_cell_cleanup"

\* C24: no step lowers an entry of the progress map or removes it: an entry
\* that exists keeps existing and its value never gets smaller, whatever the
\* step (sample, stall, restart, settle phase, finish, start of a later order).
C24_ProgressMonotone ==
  [][ \A i \in Ingredient :
        processed_ingredients[i] # Absent
          => /\ processed_ingredients'[i] # Absent
             /\ processed_ingredients'[i] >= processed_ingredients[i] ]_vars

\* the second order has just entered the ingredient sequencer with the mass
\* of the first one still on the map
C24_Witness ==
  /\ order = 2
  /\ pc = "ingredient_loop"
  /\ processed_ingredients["potato"] = 700
  /\ pre_process_weight = 700

\* the orders whose ingredients the for loop of _process_order has taken up
Begun(k) ==
  \/ orders[k].status = "completed"
  \/ /\ k = order
     /\ orders[k].status = "in_progress"
     /\ ingredient_enum # "none" \/ pc = "order_completed"

RECURSIVE RequiredOfBegun(_, _)
RequiredOfBegun(i, k) ==
  IF k = 0 THEN 0
  ELSE RequiredOfBegun(i, k - 1) + (IF Begun(k) THEN orders[k].ingredients[i] ELSE 0)

\* C25: the required total of an ingredient is the sum of the required masses
\* of the orders taken up so far, each counted once (there is no entry before
\* the first one); the accumulator is carried over from order to order, so it
\* covers the requirements of all completed orders together.
C25_RequiredAdditive ==
  \A i \in Ingredient :
    LET total == RequiredOfBegun(i, Len(orders))
        completed == {k \in 1..Len(orders) : orders[k].status = "completed"}
    IN /\ IF \E k \in 1..Len(orders) : Begun(k)
          THEN required_ingredients[i] = total
          ELSE required_ingredients[i] = Absent
       /\ completed # {} => /\ processed_ingredients[i] # Absent
                            /\ \A k \in completed : Begun(k)
       /\ (completed = 1..Len(orders) /\ completed # {})
            => processed_ingredients[i] >= total

\* the second order has been taken up: 250 g required for 150 g and 100 g
C25_Witness ==
  /\ order = 2
  /\ pc = "finish_ingredient"
  /\ orders[1].ingredients["potato"] = 150
  /\ orders[2].ingredients["potato"] = 100
  /\ required_ingredients["potato"] = 250

\* C26: the settle phase comes to its end (the finally of
\* _resume_until_stable) only with finish_no_change_checks consecutive stable
\* samples counted, or on cancellation.
C26_SettleEndsStableOrCancelled ==
  pc = "resume_finally" => (stable_count >= finish_no_change_checks \/ stop_event)

\* C27: a sample step of the cut-cycle whose reading is missing does not
\* raise: it reuses the last reading, so the delta is 0, the baseline and the
\* accumulated mass are unchanged and the no-change counter goes up by one;
\* the loop then goes on as after any sample without progress (to the next
\* poll, or to the stall branch once the counter has reached its limit).
C27_MissingReading ==
  [][ (pc = "cutter_sample" /\ pc' # "cutter_sample" /\ reading' = None)
        => /\ w' = last_weight
           /\ delta' = 0
           /\ last_weight' = last_weight
           /\ processed_ingredients' = processed_ingredients
           /\ no_change_count' = no_change_count + 1
           /\ exit_kind' = exit_kind
           /\ pc' = IF no_change_count' >= no_change_checks
                    THEN "stall_deactivate" ELSE "cutter_loop" ]_vars

\* polling goes on after a missing reading, 700 g credited and on the scale
C27_Witness ==
  /\ pc = "cutter_loop"
  /\ reading = None
  /\ last_weight = 700
  /\ Processed = 700
  /\ no_change_count = 1

\* C28: the executor reads the scale and polls only with an actuator that its
\* activate() has switched on; an activation that did not take effect ends
\* the cut-cycle before the first reading.
C28_NoSamplingWithoutActivation ==
  pc \in {"cutter_init", "cutter_loop", "cutter_sample"} => plug_on

\* C29: what the controller's model call reads is the frame the controller
\* itself captured for this call: the background loop has not overwritten it.
C29_CaptureNotOverwritten ==
  cam_pc = "annotate" => cam_seen = [by |-> "worker", n |-> cam_count["worker"]]

\* C30: no step adds an order to the queue or removes one from it: the queue
\* holds the same orders, in the same places, before and after every step.
C30_QueueReadOnly ==
  [][ /\ Len(orders') = Len(orders)
      /\ \A i \in DOMAIN orders : orders'[i].order_id = orders[i].order_id ]_vars

\* C31: deactivate() is idempotent. A deactivate() that directly follows a
\* deactivate() raises nothing and leaves the plug, the session and the
\* connected flag as the first call left them, whatever the connection state;
\* when the publish is delivered the plug is off.
IsDeactivate(log, k) == k \in DOMAIN log /\ log[k].op = "deactivate"

C32_CompletedOnlyWhenFilled ==
  [][ \A k \in DOMAIN orders :
        (orders[k].status # "completed" /\ orders'[k].status = "completed")
          => \A i \in DOMAIN orders[k].ingredients :
               processed_ingredients[i] >= required_ingredients[i] ]_vars

C32_Witness ==
  /\ stop_event
  /\ pc = "run"
  /\ \E k \in DOMAIN orders :
       /\ orders[k].status = "completed"
       /\ orders[k].ingredients["potato"] = 1200
       /\ processed_ingredients["potato"] >= required_ingredients["potato"]

\* C33: within one cut-cycle the credited mass is at most what the highest
\* raw reading of the cycle shows above the mass that was on the scale when
\* the cycle started; so a dip that recovers, or a failed first reading,
\* credits none of the mass that was there already.
C33_CreditBoundedByRise ==
  scale_hist.phase = "sampling"
    => accepted_sum + scale_hist.start <= Higher(scale_hist.highest, scale_hist.start)

\* C34: with every prompt acknowledged, placements passing the quality gate,
\* no call raising, cut-cycles receiving accepted deltas and no cancellation,
\* every order of the queue is eventually marked completed and, once
\* completed, is never taken up again.
Completed(k) == k \in DOMAIN orders /\ orders[k].status = "completed"

EveryOrderCompletedOnce ==
  \A k \in 1..MaxOrders :
    /\ (k \in DOMAIN orders) ~> Completed(k)
    /\ [](Completed(k) => []Completed(k))

\* a sampling loop that is running gets a delta at or above the threshold
InCut == pc \in {"cutter_init", "cutter_loop", "cutter_sample"}
JustCredited == pc \in {"cutter_loop", "done_deactivate"} /\ Accepted(delta)
CutsReceiveDeltas == [](InCut => <>JustCredited)

C34_EveryOrderCompleted == CutsReceiveDeltas => EveryOrderCompletedOnce

\* C34 with the settle phase named: the same, provided every settle phase the
\* run enters is also left, that is, its readings become stable for
\* finish_no_change_checks samples in a row.
InSettle == pc \in {"resume_init", "resume_loop", "resume_sample"}

C34_EveryOrderCompletedIfSettled ==
  (CutsReceiveDeltas /\ []<>~InSettle) => EveryOrderCompletedOnce

C34_Witness ==
  /\ Len(orders) = MaxOrders
  /\ \A k \in DOMAIN orders : orders[k].status = "completed"
  /\ pc = "add_test_order"

\* C35: wait_for_continue returns True only when Continue was pressed after
\* this wait had cleared the event (earlier presses are discarded), returns
\* False only when its timeout ran out, and the waits released so far never
\* outnumber the presses.
C35_Handshake ==
  /\ (ack.result = "true" => ack.fresh > 0)
  /\ (ack.result = "false" => ack.timed_out)
  /\ ack.released <= ack.presses
  /\ (ack.phase = "waiting" /\ ack.fresh = 0 => ~continue_event)

C35_Witness ==
  /\ ack.result = "true"
  /\ ack.released = 2
  /\ ack.presses = 3

\* C36: after any sequence of add_order and remove_order calls, the total of
\* every ingredient (absent counting as 0) is the sum of its grams over the
\* orders in the list, the order ids are unique and increase along the list,
\* and a remove_order with an index outside the list changes nothing.
RECURSIVE SumGrams(_, _)
SumGrams(os, i) ==
  IF os = <<>> THEN 0
  ELSE SumGrams(Tail(os), i) + (IF i \in DOMAIN os[1].ingredients THEN os[1].ingredients[i] ELSE 0)

TotalsMatch ==
  \A i \in Ingredient :
    (IF ingredient_totals[i] = Absent THEN 0 ELSE ingredient_totals[i]) = SumGrams(orders, i)

IdsIncrease ==
  /\ \A k \in 1..(Len(orders) - 1) : orders[k].order_id < orders[k + 1].order_id
  /\ \A k \in DOMAIN orders : orders[k].order_id < next_order_id

OutOfRangeRemove ==
  (om_call'.op = "remove" /\ (om_call'.index < 0 \/ om_call'.index >= Len(orders)))
    => /\ orders' = orders
       /\ ingredient_totals' = ingredient_totals
       /\ next_order_id' = next_order_id

C36_TotalsInvariant ==
  /\ [](TotalsMatch /\ IdsIncrease)
  /\ [][OutOfRangeRemove]_vars

C36_Witness ==
  /\ om_call.op = "remove"
  /\ Len(orders) = 2
  /\ orders[1].order_id = 2 /\ orders[2].order_id = 4
  /\ ingredient_totals["potato"] = 250

====
